---- MODULE Spec2Model ----
(***************************************************************************)
(* A model of the OAT image navigator (oat.c): image context setup, the    *)
(* dex-file directory walker, the class resolver, the method resolver and  *)
(* the code locator.  The mapped image is a variable so that every lookup  *)
(* reads the bytes the image holds at the address it computes.             *)
(***************************************************************************)
EXTENDS Integers, Sequences, FiniteSets, TLC

(***************************************************************************)
(* Bounds of the model.                                                    *)
(***************************************************************************)
\* Largest number of dex-file records in an image.
MaxDex == 2
\* Longest location string, in bytes.
MaxLen == 2
\* Address at which the image is mapped (any non-null address).
Begin == 4096

(***************************************************************************)
(* Program constants.                                                      *)
(***************************************************************************)
NULL == 0
\* Number of values of a uint16_t (the class_def_index of oat_GetClass).
TwoPow16 == 65536
\* A large uint32_t value (2^31 - 2^16): the largest file offset, index or
\* size the model uses.  The uint32_t loop counters never wrap: each is
\* incremented only while below a uint32_t bound.
LargeUint32 == TwoPow16 * ((TwoPow16 \div 2) - 1)
\* Bytes of one uint32_t field of the image.
FieldSize == 4
\* Bytes of the fixed part of the header, before key_value_store_.
HeaderSize == 72

\* An indeterminate number or pointer: a field nobody has written.
Indeterminate == NULL - 1
\* Indeterminate record data: never written, or left half written by a
\* decode that failed.
NoData == [valid |-> FALSE]

(***************************************************************************)
(* The contents of a mapped image.                                         *)
(*   header : the header fields the navigator reads: the signature, the    *)
(*            number of dex-file records, the size of the key-value store  *)
(*   recs   : the dex-file records packed in the stream, in order; each    *)
(*            has its location bytes, its embedded DEX module, the set of  *)
(*            class-definition table entries that point past the image,    *)
(*            and the in-class method indexes that have compiled code      *)
(***************************************************************************)
\* The DEX modules an image can embed, as the DEX parser sees them: the
\* number of class definitions and the class-definition index of each
\* descriptor the module defines.
NumDefs(kind) == IF kind = "wide" THEN TwoPow16 + 2 ELSE 2

DexModule(kind) ==
    IF kind = "wide"
    THEN [numDefs |-> NumDefs(kind),
          defs    |-> [d \in {"LA;", "LW;"} |->
                          IF d = "LA;" THEN 0 ELSE TwoPow16 + 1]]
    ELSE [numDefs |-> NumDefs(kind),
          defs    |-> [d \in {"LA;", "LB;"} |-> IF d = "LA;" THEN 0 ELSE 1]]

\* Descriptors callers look up ("LX;" is defined by no module).
Descriptors == {"LA;", "LB;", "LW;", "LX;"}

\* Location strings of the records: a name of MaxLen bytes, its longest
\* proper prefix, its longest proper suffix, and the name with a NUL as its
\* last byte.
BaseName == [k \in 1..MaxLen |-> k]
PrefixName == SubSeq(BaseName, 1, MaxLen - 1)
SuffixName == SubSeq(BaseName, 2, MaxLen)
NulName == [k \in 1..MaxLen |-> IF k = MaxLen THEN 0 ELSE k]
LocationPool == {BaseName, PrefixName, SuffixName, NulName}

\* The record stored under each location string: the suffix name holds a
\* wide module, the full name a module whose table entry 0 points past the
\* image; the compiled methods differ between records.
RawRecord(loc) ==
    [location |-> loc,
     dex      |-> IF loc = SuffixName THEN "wide" ELSE "small",
     bad      |-> IF loc = BaseName THEN {0} ELSE {},
     compiled |-> IF loc = PrefixName THEN {1, 4} ELSE {0, 2, 3}]

RecordPool == {RawRecord(loc) : loc \in LocationPool}

RECURSIVE SeqsUpTo(_, _)
SeqsUpTo(S, n) ==
    IF n = 0 THEN {<< >>}
    ELSE LET shorter == SeqsUpTo(S, n - 1)
         IN  shorter \cup {Append(s, x) : s \in {t \in shorter : Len(t) = n - 1}, x \in S}

(***************************************************************************)
(* Layout of the image: header, key-value store, record stream, then the   *)
(* class metadata of every record, then the compiled code.                 *)
(***************************************************************************)
\* Bytes the key-value store really occupies.
KvActual == 2 * FieldSize
\* Methods per class (in-class method indexes 0 .. MethodsPerClass - 1).
MethodsPerClass == 5
\* Bytes of one class metadata record: status and type, then one
\* OatMethodOffsets slot per method.
ClassDataSize == FieldSize * (1 + MethodsPerClass)

\* Bytes of one dex-file record: location size, location bytes, checksum,
\* dex file offset, one offset per class definition.
RecordSize(r) ==
    FieldSize + Len(r.location) + FieldSize + FieldSize
      + FieldSize * NumDefs(r.dex)

StreamStart == Begin + HeaderSize + KvActual

RECURSIVE RecStart(_, _)
\* Address of record i (from 0) of the stream; RecStart(img, count) is the
\* end of the stream.
RecStart(img, i) ==
    IF i = 0 THEN StreamStart
    ELSE RecStart(img, i - 1) + RecordSize(img.recs[i])

StreamEnd(img) == RecStart(img, Len(img.recs))

RECURSIVE ClassDataStart(_, _)
\* Address of the class metadata of record i's class definition 0.
ClassDataStart(img, i) ==
    IF i = 0 THEN StreamEnd(img)
    ELSE ClassDataStart(img, i - 1)
           + ClassDataSize * NumDefs(img.recs[i].dex)

CodeStart(img) == ClassDataStart(img, Len(img.recs))
\* Bytes of compiled code of one method.
CodeSize == 2 * FieldSize
\* One past the last address of the image.
ImageEnd(img) == CodeStart(img) + CodeSize * MethodsPerClass * 2 * (Len(img.recs) + 1)
\* A file offset that lies beyond the image.
PastEndOffset(img) == (ImageEnd(img) - Begin) + HeaderSize

\* Address of the class-definition offset table of record i.
TableAddr(img, i) ==
    RecStart(img, i) + FieldSize + Len(img.recs[i + 1].location)
      + FieldSize + FieldSize

\* The uint32_t stored in entry k of the table at tableAddr.
TableEntry(img, tableAddr, k) ==
    LET i == CHOOSE j \in 0..(Len(img.recs) - 1) : TableAddr(img, j) = tableAddr
        r == img.recs[i + 1]
    IN  IF k \in r.bad THEN PastEndOffset(img)
        ELSE (ClassDataStart(img, i) - Begin) + ClassDataSize * k

(***************************************************************************)
(* Header accessors and the record decoder.                                *)
(***************************************************************************)
\* The header fields read through the header pointer h.  Callers pass the
\* address of a mapped image as mem_begin, so h is the image's header.
HeaderAt(img, h) == img.header

\* The signature and version field of a sound header.
OatSignature == "oat"

\* IsValidOatHeader: looks at the leading signature and version field only.
IsValidOatHeader(img, mem) == HeaderAt(img, mem).signature = OatSignature

\* bool oat_IsValidHeader(mem)
oat_IsValidHeader(img, mem) == IsValidOatHeader(img, mem)

NumDexFiles(img, h) == HeaderAt(img, h).dex_file_count

GetDexFileStoragePointer(img, h) ==
    h + HeaderSize + HeaderAt(img, h).key_value_store_size

\* Decode the record at the cursor: fails when the record would cross end;
\* otherwise yields the decoded data and the cursor past the record.
ReadOatDexFileData(img, cursor, end) ==
    LET starts == {j \in 0..(Len(img.recs) - 1) : RecStart(img, j) = cursor}
    IN  IF starts = {} \/ cursor >= end
        THEN [ok |-> FALSE, data |-> NoData, cursor |-> cursor]
        ELSE LET i == CHOOSE j \in starts : TRUE
                 r == img.recs[i + 1]
             IN  IF cursor + RecordSize(r) > end
                 THEN [ok |-> FALSE, data |-> NoData, cursor |-> cursor]
                 ELSE [ok     |-> TRUE,
                       data   |-> [valid |-> TRUE,
                                   location_string |->
                                      [length  |-> Len(r.location),
                                       content |-> r.location],
                                   dex_file_pointer |-> <<"dex", i>>,
                                   class_definition_offsets |-> TableAddr(img, i)],
                       cursor |-> cursor + RecordSize(r)]

(***************************************************************************)
(* C strings.                                                              *)
(***************************************************************************)
RECURSIVE strlenFrom(_, _)
strlenFrom(buf, k) ==
    IF k > Len(buf) \/ buf[k] = 0 THEN k - 1 ELSE strlenFrom(buf, k + 1)
\* Bytes before the first NUL of the buffer.
strlen(buf) == strlenFrom(buf, 1)

RECURSIVE strncmpFrom(_, _, _, _)
\* 0 when the first n bytes agree, or agree up to a NUL in both.
strncmpFrom(a, b, n, k) ==
    IF k > n THEN 0
    ELSE LET ca == IF k <= Len(a) THEN a[k] ELSE 0
             cb == IF k <= Len(b) THEN b[k] ELSE 0
         IN  IF ca # cb THEN ca - cb
             ELSE IF ca = 0 THEN 0
             ELSE strncmpFrom(a, b, n, k + 1)
strncmp(a, b, n) == strncmpFrom(a, b, n, 1)

(***************************************************************************)
(* Offset Resolver and Image Context setup.                                *)
(***************************************************************************)
\* The caller's OatFile before anybody wrote it.
NoContext ==
    [begin |-> Indeterminate, end |-> Indeterminate, header |-> Indeterminate,
     key_value_storage_start |-> Indeterminate,
     dex_file_storage_start  |-> Indeterminate]

\* A resolver that also refuses offsets at or beyond end.
oat_PointerFromFileOffset_Bounded(oat_file, offset) ==
    IF offset = 0 \/ oat_file.begin + offset >= oat_file.end THEN NULL
    ELSE oat_file.begin + offset

\* void *oat_PointerFromFileOffset(oat_file, offset): NULL for offset 0,
\* begin + offset otherwise, whatever end is.
oat_PointerFromFileOffset(oat_file, offset) ==
    IF offset = 0 THEN NULL ELSE oat_file.begin + offset

\* A setup that stores the range before it validates it.
oat_Setup_StoresFirst(img, result, mem_begin, mem_end) ==
    LET stored == [result EXCEPT !.begin = mem_begin, !.end = mem_end]
    IN  IF ~(mem_begin # NULL /\ mem_end # NULL) \/ ~(mem_end > mem_begin)
        THEN [ret |-> FALSE, ctx |-> stored]
        ELSE [ret |-> TRUE,
              ctx |-> [stored EXCEPT
                          !.header = mem_begin,
                          !.key_value_storage_start = mem_begin + HeaderSize,
                          !.dex_file_storage_start =
                              mem_begin + HeaderSize
                                + HeaderAt(img, mem_begin).key_value_store_size]]

\* A setup that validates the header's signature and the place of the
\* record stream before it stores anything.
oat_Setup_Validating(img, result, mem_begin, mem_end) ==
    IF ~(mem_begin # NULL /\ mem_end # NULL) THEN [ret |-> FALSE, ctx |-> result]
    ELSE IF ~(mem_end > mem_begin) THEN [ret |-> FALSE, ctx |-> result]
    ELSE IF ~IsValidOatHeader(img, mem_begin) THEN [ret |-> FALSE, ctx |-> result]
    ELSE IF GetDexFileStoragePointer(img, mem_begin) > mem_end
    THEN [ret |-> FALSE, ctx |-> result]
    ELSE LET kv == mem_begin + HeaderSize
         IN  [ret |-> TRUE,
              ctx |-> [begin  |-> mem_begin,
                       end    |-> mem_end,
                       header |-> mem_begin,
                       key_value_storage_start |-> kv,
                       dex_file_storage_start  |->
                           kv + HeaderAt(img, mem_begin).key_value_store_size]]

\* bool oat_Setup(result, mem_begin, mem_end): the return value and the
\* OatFile afterwards.
oat_Setup(img, result, mem_begin, mem_end) ==
    IF ~(mem_begin # NULL /\ mem_end # NULL) THEN [ret |-> FALSE, ctx |-> result]
    ELSE IF ~(mem_end > mem_begin) THEN [ret |-> FALSE, ctx |-> result]
    ELSE LET kv == mem_begin + HeaderSize
         IN  [ret |-> TRUE,
              ctx |-> [begin  |-> mem_begin,
                       end    |-> mem_end,
                       header |-> mem_begin,
                       key_value_storage_start |-> kv,
                       dex_file_storage_start  |->
                           kv + HeaderAt(img, mem_begin).key_value_store_size]]

(***************************************************************************)
(* Dex-File Directory Walker.                                              *)
(***************************************************************************)
\* The caller's OatDexFile before anybody wrote it.
NoDexFile ==
    [data |-> NoData, oat_file |-> Indeterminate, index |-> Indeterminate]

\* The address of the caller's OatFile (outside the image).
OatFilePtr == Begin - HeaderSize

\* A match test without the length test: location matches as a prefix.
LocationMatches_NoLength(location, data) ==
    strncmp(location, data.location_string.content, strlen(location)) = 0

\* The two tests of the loop body of oat_FindDexFile: the lengths are equal
\* and strncmp over strlen(location) bytes finds no difference.
LocationMatches(location, data) ==
    IF strlen(location) # data.location_string.length THEN FALSE
    ELSE strncmp(location, data.location_string.content, strlen(location)) = 0

RECURSIVE FindDexFileLoop_SkipsFailed(_, _, _, _, _, _, _)
\* A loop that goes on to the next position when a record fails to decode.
FindDexFileLoop_SkipsFailed(img, oat_file, result, location, data, i, log) ==
    IF ~(i < NumDexFiles(img, oat_file.header))
    THEN [ret |-> FALSE, outcome |-> "not-found", result |-> result, log |-> log,
          oat_file |-> oat_file]
    ELSE LET rd == ReadOatDexFileData(img, data, oat_file.end)
             lg == Append(log, <<"decode", i, rd.ok>>)
         IN  IF ~rd.ok
             THEN FindDexFileLoop_SkipsFailed(img, oat_file,
                                              [result EXCEPT !.data = rd.data],
                                              location, rd.cursor, i + 1, lg)
             ELSE LET res == [data |-> rd.data, oat_file |-> OatFilePtr, index |-> i]
                      lc  == Append(lg, <<"compare", i>>)
                  IN  IF LocationMatches(location, res.data)
                      THEN [ret |-> TRUE, outcome |-> "found", result |-> res,
                            log |-> lc, oat_file |-> oat_file]
                      ELSE FindDexFileLoop_SkipsFailed(img, oat_file, res, location,
                                                       rd.cursor, i + 1, lc)

RECURSIVE FindDexFileLoop_KeepsOutput(_, _, _, _, _, _, _)
\* A loop that decodes into a record of its own and writes the caller's
\* record only for a match.
FindDexFileLoop_KeepsOutput(img, oat_file, result, location, data, i, log) ==
    IF ~(i < NumDexFiles(img, oat_file.header))
    THEN [ret |-> FALSE, outcome |-> "not-found", result |-> result, log |-> log,
          oat_file |-> oat_file]
    ELSE LET rd == ReadOatDexFileData(img, data, oat_file.end)
             lg == Append(log, <<"decode", i, rd.ok>>)
         IN  IF ~rd.ok
             THEN [ret |-> FALSE, outcome |-> "failure", result |-> result,
                   log |-> lg, oat_file |-> oat_file]
             ELSE LET res == [data |-> rd.data, oat_file |-> OatFilePtr, index |-> i]
                      lc  == Append(lg, <<"compare", i>>)
                  IN  IF LocationMatches(location, res.data)
                      THEN [ret |-> TRUE, outcome |-> "found", result |-> res,
                            log |-> lc, oat_file |-> oat_file]
                      ELSE FindDexFileLoop_KeepsOutput(img, oat_file, result, location,
                                                       rd.cursor, i + 1, lc)

RECURSIVE FindDexFileLoop(_, _, _, _, _, _, _)
\* The loop of oat_FindDexFile from iteration i on, with the cursor at data.
\* oat_file in the result is the caller's OatFile after the call.
FindDexFileLoop(img, oat_file, result, location, data, i, log) ==
    IF ~(i < NumDexFiles(img, oat_file.header))
    THEN [ret |-> FALSE, outcome |-> "not-found", result |-> result, log |-> log,
          oat_file |-> oat_file]
    ELSE LET rd == ReadOatDexFileData(img, data, oat_file.end)
             lg == Append(log, <<"decode", i, rd.ok>>)
         IN  IF ~rd.ok
             THEN [ret |-> FALSE, outcome |-> "failure",
                   result |-> [result EXCEPT !.data = rd.data], log |-> lg,
                   oat_file |-> oat_file]
             ELSE LET res == [data |-> rd.data, oat_file |-> OatFilePtr, index |-> i]
                      lc  == Append(lg, <<"compare", i>>)
                  IN  IF LocationMatches(location, res.data)
                      THEN [ret |-> TRUE, outcome |-> "found", result |-> res,
                            log |-> lc, oat_file |-> oat_file]
                      ELSE FindDexFileLoop(img, oat_file, res, location,
                                           rd.cursor, i + 1, lc)

\* bool oat_FindDexFile(oat_file, result, location)
oat_FindDexFile(img, oat_file, result, location) ==
    FindDexFileLoop(img, oat_file, result, location,
                    GetDexFileStoragePointer(img, oat_file.header), 0, << >>)

RECURSIVE GetOatDexFileLoop_CursorInContext(_, _, _, _, _, _, _)
\* A loop that keeps its cursor in the context's dex_file_storage_start.
GetOatDexFileLoop_CursorInContext(img, oat_file, result, index, data, i, log) ==
    IF ~(i < index + 1)
    THEN [ret |-> TRUE, outcome |-> "found",
          result |-> [result EXCEPT !.oat_file = OatFilePtr, !.index = index],
          log |-> log, oat_file |-> oat_file]
    ELSE LET rd == ReadOatDexFileData(img, data, oat_file.end)
             lg == Append(log, <<"decode", i, rd.ok>>)
         IN  IF ~rd.ok
             THEN [ret |-> FALSE, outcome |-> "failure",
                   result |-> [result EXCEPT !.data = rd.data], log |-> lg,
                   oat_file |-> oat_file]
             ELSE GetOatDexFileLoop_CursorInContext(
                      img, [oat_file EXCEPT !.dex_file_storage_start = rd.cursor],
                      [result EXCEPT !.data = rd.data], index, rd.cursor, i + 1, lg)

RECURSIVE GetOatDexFileLoop(_, _, _, _, _, _, _)
\* The loop of oat_GetOatDexFile from iteration i on.  oat_file in the
\* result is the caller's OatFile after the call.
GetOatDexFileLoop(img, oat_file, result, index, data, i, log) ==
    IF ~(i < index + 1)
    THEN [ret |-> TRUE, outcome |-> "found",
          result |-> [result EXCEPT !.oat_file = OatFilePtr, !.index = index],
          log |-> log, oat_file |-> oat_file]
    ELSE LET rd == ReadOatDexFileData(img, data, oat_file.end)
             lg == Append(log, <<"decode", i, rd.ok>>)
         IN  IF ~rd.ok
             THEN [ret |-> FALSE, outcome |-> "failure",
                   result |-> [result EXCEPT !.data = rd.data], log |-> lg,
                   oat_file |-> oat_file]
             ELSE GetOatDexFileLoop(img, oat_file, [result EXCEPT !.data = rd.data],
                                    index, rd.cursor, i + 1, lg)

\* A lookup without the range check on index.
oat_GetOatDexFile_NoRangeCheck(img, oat_file, result, index) ==
    GetOatDexFileLoop(img, oat_file, result, index,
                      GetDexFileStoragePointer(img, oat_file.header), 0, << >>)

\* bool oat_GetOatDexFile(oat_file, result, index)
oat_GetOatDexFile(img, oat_file, result, index) ==
    IF ~(index < NumDexFiles(img, oat_file.header))
    THEN [ret |-> FALSE, outcome |-> "out-of-range", result |-> result, log |-> << >>,
          oat_file |-> oat_file]
    ELSE GetOatDexFileLoop(img, oat_file, result, index,
                           GetDexFileStoragePointer(img, oat_file.header), 0, << >>)

(***************************************************************************)
(* The DEX parser and the class metadata decoder (external capabilities).  *)
(***************************************************************************)
\* The caller's OatClass before anybody wrote it.
NoClass ==
    [dex_class |-> NoData, oat_class_data |-> NoData, oat_dex_file |-> Indeterminate]

\* The caller's OatMethod before anybody wrote it.
NoMethod ==
    [dex_method |-> NoData, oat_method_offsets |-> Indeterminate,
     oat_class |-> Indeterminate]

\* Addresses of the caller's OatDexFile and OatClass (outside the image).
DexFilePtr == OatFilePtr - HeaderSize
ClassPtr == DexFilePtr - HeaderSize

\* The DEX module a dex_file_pointer points at.
ModuleAt(img, dex_file_pointer) == DexModule(img.recs[dex_file_pointer[2] + 1].dex)

\* dex_FindClass: the class handle of the descriptor, if the module has it.
dex_FindClass(img, dex_file_pointer, descriptor) ==
    LET m == ModuleAt(img, dex_file_pointer)
    IN  IF descriptor \in DOMAIN m.defs
        THEN [ok |-> TRUE,
              dex_class |-> [valid |-> TRUE, dex |-> dex_file_pointer,
                             class_def |-> m.defs[descriptor]]]
        ELSE [ok |-> FALSE, dex_class |-> NoData]

\* GetIndexForClassDef: the class-definition index of a class handle.
GetIndexForClassDef(dex_file_pointer, dex_class) == dex_class.class_def

\* dex_GetClass: the class handle at a class-definition index, if in range.
dex_GetClass(img, dex_file_pointer, class_def_index) ==
    LET m == ModuleAt(img, dex_file_pointer)
    IN  IF class_def_index < m.numDefs
        THEN [ok |-> TRUE,
              dex_class |-> [valid |-> TRUE, dex |-> dex_file_pointer,
                             class_def |-> class_def_index]]
        ELSE [ok |-> FALSE, dex_class |-> NoData]

\* The record and class definition whose metadata starts at the address.
ClassesAt(img, addr) ==
    {c \in {<<i, (addr - ClassDataStart(img, i)) \div ClassDataSize>> :
               i \in 0..(Len(img.recs) - 1)} :
        /\ addr >= ClassDataStart(img, c[1])
        /\ addr < ClassDataStart(img, c[1] + 1)
        /\ (addr - ClassDataStart(img, c[1])) % ClassDataSize = 0}

\* DecodeOatClassData: fails for no pointer and when the metadata would
\* cross end; otherwise the metadata stored at the pointer.
DecodeOatClassData(img, pointer, end) ==
    IF pointer = NULL \/ pointer + ClassDataSize > end \/ ClassesAt(img, pointer) = {}
    THEN [ok |-> FALSE, oat_class_data |-> NoData]
    ELSE LET c == CHOOSE x \in ClassesAt(img, pointer) : TRUE
         IN  [ok |-> TRUE,
              oat_class_data |-> [valid |-> TRUE, at |-> pointer,
                                  compiled |-> img.recs[c[1] + 1].compiled]]

\* The methods of every class: in-class index by <<descriptor, signature>>.
\* The two tables are searched separately, and "twice" is in both.
DirectMethods == (<<"init", "()V">> :> 0) @@ (<<"twice", "()V">> :> 3)
VirtualMethods ==
    (<<"run", "()V">> :> 1) @@ (<<"size", "()I">> :> 2) @@ (<<"twice", "()V">> :> 4)
MethodNames ==
    {<<"init", "()V">>, <<"run", "()V">>, <<"size", "()I">>, <<"twice", "()V">>,
     <<"run", "()I">>}

dex_FindDirectMethod(dex_class, descriptor, signature) ==
    IF <<descriptor, signature>> \in DOMAIN DirectMethods
    THEN [ok |-> TRUE,
          dex_method |-> [valid |-> TRUE, kind |-> "direct",
                          class_method_idx |-> DirectMethods[<<descriptor, signature>>]]]
    ELSE [ok |-> FALSE, dex_method |-> NoData]

dex_FindVirtualMethod(dex_class, descriptor, signature) ==
    IF <<descriptor, signature>> \in DOMAIN VirtualMethods
    THEN [ok |-> TRUE,
          dex_method |-> [valid |-> TRUE, kind |-> "virtual",
                          class_method_idx |-> VirtualMethods[<<descriptor, signature>>]]]
    ELSE [ok |-> FALSE, dex_method |-> NoData]

\* GetOatMethodOffsets: the address of the method's OatMethodOffsets, or
\* NULL when the method has no compiled code.
GetOatMethodOffsets(oat_class_data, method_index) ==
    IF method_index \in oat_class_data.compiled
    THEN oat_class_data.at + FieldSize * (1 + method_index)
    ELSE NULL

\* The code_offset_ field of the OatMethodOffsets stored at the address.
CodeOffsetAt(img, addr) ==
    LET slot  == (addr - StreamEnd(img)) \div FieldSize
        cls   == slot \div (1 + MethodsPerClass)
        j     == (slot % (1 + MethodsPerClass)) - 1
    IN  (CodeStart(img) - Begin) + CodeSize * (MethodsPerClass * (cls % 2) + j)

(***************************************************************************)
(* Class Resolver.  oat_dex_file is the OatDexFile the pointer argument    *)
(* points at and oat_file the OatFile its back-reference points at.        *)
(***************************************************************************)
\* bool oat_FindClassInDex(oat_dex_file, clazz, descriptor)
oat_FindClassInDex(img, oat_file, oat_dex_file, clazz, descriptor) ==
    LET f == dex_FindClass(img, oat_dex_file.data.dex_file_pointer, descriptor)
    IN  IF ~f.ok
        THEN [ret |-> FALSE, outcome |-> "not-found", clazz |-> clazz,
              entry |-> Indeterminate, pointer |-> Indeterminate]
        ELSE LET class_def_index ==
                     GetIndexForClassDef(oat_dex_file.data.dex_file_pointer, f.dex_class)
                 class_def_offset ==
                     TableEntry(img, oat_dex_file.data.class_definition_offsets,
                                class_def_index)
                 oat_class_def_pointer ==
                     oat_PointerFromFileOffset(oat_file, class_def_offset)
                 d == DecodeOatClassData(img, oat_class_def_pointer, oat_file.end)
             IN  IF ~d.ok
                 THEN [ret |-> FALSE, outcome |-> "failure",
                       clazz |-> [clazz EXCEPT !.dex_class = f.dex_class,
                                               !.oat_class_data = d.oat_class_data],
                       entry |-> class_def_index, pointer |-> oat_class_def_pointer]
                 ELSE [ret |-> TRUE, outcome |-> "found",
                       clazz |-> [dex_class |-> f.dex_class,
                                  oat_class_data |-> d.oat_class_data,
                                  oat_dex_file |-> DexFilePtr],
                       entry |-> class_def_index, pointer |-> oat_class_def_pointer]

\* bool oat_GetClass(oat_dex_file, clazz, uint16_t class_def_index): the
\* caller's index arrives converted to uint16_t.
oat_GetClass(img, oat_file, oat_dex_file, clazz, index) ==
    LET class_def_index == index % TwoPow16
        g == dex_GetClass(img, oat_dex_file.data.dex_file_pointer, class_def_index)
    IN  IF ~g.ok
        THEN [ret |-> FALSE, outcome |-> "out-of-range", clazz |-> clazz,
              entry |-> Indeterminate, pointer |-> Indeterminate]
        ELSE LET class_def_offset ==
                     TableEntry(img, oat_dex_file.data.class_definition_offsets,
                                class_def_index)
                 oat_class_def_pointer ==
                     oat_PointerFromFileOffset(oat_file, class_def_offset)
                 d == DecodeOatClassData(img, oat_class_def_pointer, oat_file.end)
             IN  IF ~d.ok
                 THEN [ret |-> FALSE, outcome |-> "failure",
                       clazz |-> [clazz EXCEPT !.dex_class = g.dex_class,
                                               !.oat_class_data = d.oat_class_data],
                       entry |-> class_def_index, pointer |-> oat_class_def_pointer]
                 ELSE [ret |-> TRUE, outcome |-> "found",
                       clazz |-> [dex_class |-> g.dex_class,
                                  oat_class_data |-> d.oat_class_data,
                                  oat_dex_file |-> DexFilePtr],
                       entry |-> class_def_index, pointer |-> oat_class_def_pointer]

RECURSIVE FindClassLoop_SkipsFailed(_, _, _, _, _, _, _)
\* A loop that goes on to the next dex-file record when one fails to decode.
FindClassLoop_SkipsFailed(img, oat, dexOut, clsOut, descriptor, i, log) ==
    IF ~(i < HeaderAt(img, oat.header).dex_file_count)
    THEN [ret |-> FALSE, outcome |-> "not-found", dexFile |-> dexOut,
          clazz |-> clsOut, log |-> log, oat_file |-> oat]
    ELSE LET g  == oat_GetOatDexFile(img, oat, dexOut, i)
             lg == Append(log, <<"GetOatDexFile", i, g.ret, g.log>>)
         IN  IF ~g.ret
             THEN FindClassLoop_SkipsFailed(img, g.oat_file, g.result, clsOut,
                                            descriptor, i + 1, lg)
             ELSE LET c  == oat_FindClassInDex(img, g.oat_file, g.result, clsOut,
                                               descriptor)
                      lc == Append(lg, <<"FindClassInDex", g.result.index, c.outcome>>)
                  IN  IF c.ret
                      THEN [ret |-> TRUE, outcome |-> "found", dexFile |-> g.result,
                            clazz |-> c.clazz, log |-> lc, oat_file |-> g.oat_file]
                      ELSE FindClassLoop_SkipsFailed(img, g.oat_file, g.result, c.clazz,
                                                     descriptor, i + 1, lc)

RECURSIVE FindClassLoop(_, _, _, _, _, _, _)
\* The loop of oat_FindClass from iteration i on.
FindClassLoop(img, oat, result_oat_dex_file, result_clazz, descriptor, i, log) ==
    IF ~(i < HeaderAt(img, oat.header).dex_file_count)
    THEN [ret |-> FALSE, outcome |-> "not-found", dexFile |-> result_oat_dex_file,
          clazz |-> result_clazz, log |-> log, oat_file |-> oat]
    ELSE LET g  == oat_GetOatDexFile(img, oat, result_oat_dex_file, i)
             lg == Append(log, <<"GetOatDexFile", i, g.ret, g.log>>)
         IN  IF ~g.ret
             THEN [ret |-> FALSE, outcome |-> "failure", dexFile |-> g.result,
                   clazz |-> result_clazz, log |-> lg, oat_file |-> g.oat_file]
             ELSE LET c  == oat_FindClassInDex(img, g.oat_file, g.result, result_clazz,
                                               descriptor)
                      lc == Append(lg, <<"FindClassInDex", g.result.index, c.outcome>>)
                  IN  IF c.ret
                      THEN [ret |-> TRUE, outcome |-> "found", dexFile |-> g.result,
                            clazz |-> c.clazz, log |-> lc, oat_file |-> g.oat_file]
                      ELSE FindClassLoop(img, g.oat_file, g.result, c.clazz, descriptor,
                                         i + 1, lc)

\* bool oat_FindClass(oat, result_oat_dex_file, result_clazz, descriptor)
oat_FindClass(img, oat, result_oat_dex_file, result_clazz, descriptor) ==
    FindClassLoop(img, oat, result_oat_dex_file, result_clazz, descriptor, 0, << >>)

(***************************************************************************)
(* Method Resolver.                                                        *)
(***************************************************************************)
\* bool oat_FindDirectMethod(oat_class, result, descriptor, signature)
oat_FindDirectMethod(oat_class, result, descriptor, signature) ==
    LET f  == dex_FindDirectMethod(oat_class.dex_class, descriptor, signature)
        lg == <<<<"dex_FindDirectMethod", f.ok>>>>
    IN  IF ~f.ok THEN [ret |-> FALSE, method |-> result, log |-> lg]
        ELSE LET meth_off == GetOatMethodOffsets(oat_class.oat_class_data,
                                                 f.dex_method.class_method_idx)
             IN  [ret |-> TRUE,
                  method |-> [dex_method |-> f.dex_method,
                              oat_method_offsets |-> meth_off,
                              oat_class |-> ClassPtr],
                  log |-> Append(lg, <<"GetOatMethodOffsets",
                                       f.dex_method.class_method_idx, meth_off>>)]

\* bool oat_FindVirtualMethod(oat_class, result, descriptor, signature)
oat_FindVirtualMethod(oat_class, result, descriptor, signature) ==
    LET f  == dex_FindVirtualMethod(oat_class.dex_class, descriptor, signature)
        lg == <<<<"dex_FindVirtualMethod", f.ok>>>>
    IN  IF ~f.ok THEN [ret |-> FALSE, method |-> result, log |-> lg]
        ELSE LET meth_off == GetOatMethodOffsets(oat_class.oat_class_data,
                                                 f.dex_method.class_method_idx)
             IN  [ret |-> TRUE,
                  method |-> [dex_method |-> f.dex_method,
                              oat_method_offsets |-> meth_off,
                              oat_class |-> ClassPtr],
                  log |-> Append(lg, <<"GetOatMethodOffsets",
                                       f.dex_method.class_method_idx, meth_off>>)]

\* A lookup that tries the virtual-method table first, then the direct one.
oat_FindMethod_VirtualFirst(oat_class, result, descriptor, signature) ==
    LET v == oat_FindVirtualMethod(oat_class, result, descriptor, signature)
    IN  IF v.ret THEN v
        ELSE LET d == oat_FindDirectMethod(oat_class, v.method, descriptor, signature)
             IN  [ret |-> d.ret, method |-> d.method, log |-> v.log \o d.log]

\* bool oat_FindMethod(oat_class, result, descriptor, signature)
oat_FindMethod(oat_class, result, descriptor, signature) ==
    LET d == oat_FindDirectMethod(oat_class, result, descriptor, signature)
    IN  IF d.ret THEN [ret |-> TRUE, method |-> d.method, log |-> d.log]
        ELSE LET v == oat_FindVirtualMethod(oat_class, d.method, descriptor, signature)
             IN  IF v.ret
                 THEN [ret |-> TRUE, method |-> v.method, log |-> d.log \o v.log]
                 ELSE [ret |-> FALSE, method |-> v.method, log |-> d.log \o v.log]

(***************************************************************************)
(* Code Locator.                                                           *)
(***************************************************************************)
\* bool oat_HasQuickCompiledCode(m)
oat_HasQuickCompiledCode(m) == m.oat_method_offsets # NULL

\* Values a read of code_offset_ through a null oat_method_offsets can
\* yield when the read does not trap.
NullReadValues == {0, FieldSize}

\* An entry point that is the code offset itself, not an address.
oat_GetQuickCompiledEntryPoint_NoBase(img, oat_file, m) ==
    IF m.oat_method_offsets = NULL
    THEN {[crash |-> TRUE, value |-> Indeterminate]}
    ELSE {[crash |-> FALSE, value |-> CodeOffsetAt(img, m.oat_method_offsets)]}

\* void *oat_GetQuickCompiledEntryPoint(m): the outcomes of the call.  It
\* reads m->oat_method_offsets->code_offset_ without looking at the pointer,
\* so with a null pointer the read traps or yields some value.
oat_GetQuickCompiledEntryPoint(img, oat_file, m) ==
    LET oat_base == oat_file.begin
    IN  IF m.oat_method_offsets = NULL
        THEN {[crash |-> TRUE, value |-> Indeterminate]}
               \cup {[crash |-> FALSE, value |-> v + oat_base] : v \in NullReadValues}
        ELSE {[crash |-> FALSE,
               value |-> CodeOffsetAt(img, m.oat_method_offsets) + oat_base]}

\* InstructionPointerToCodePointer: clears the THUMB bit of the address.
InstructionPointerToCodePointer(addr) == addr - (addr % 2)

\* void *oat_GetQuickCompiledMemoryPointer(m)
oat_GetQuickCompiledMemoryPointer(img, oat_file, m) ==
    {[crash |-> r.crash,
      value |-> IF r.crash THEN r.value ELSE InstructionPointerToCodePointer(r.value)] :
        r \in oat_GetQuickCompiledEntryPoint(img, oat_file, m)}

(***************************************************************************)
(* The state: the mapped image, the caller's four records, the last call   *)
(* with what it returned, and whether the process has trapped.             *)
(***************************************************************************)
VARIABLES image, oat, dexFile, clazz, method, call, crashed

vars == <<image, oat, dexFile, clazz, method, call, crashed>>

\* A key_value_store_size_ that puts the record stream beyond any image.
KvCorrupt == LargeUint32

\* A signature that is not an OAT header's.
ElfSignature == "elf"

\* A header as the navigator reads it.
Header(signature, count, kv) ==
    [signature |-> signature, dex_file_count |-> count, key_value_store_size |-> kv]

\* The images: every sequence of records under a sound signature, with a
\* sound or a corrupt size field, and the images of at most one record
\* under a foreign signature.
Images ==
    {[header |-> Header(OatSignature, Len(rs), kv), recs |-> rs] :
        rs \in SeqsUpTo(RecordPool, MaxDex), kv \in {KvActual, KvCorrupt}}
      \cup
    {[header |-> Header(ElfSignature, Len(rs), kv), recs |-> rs] :
        rs \in SeqsUpTo(RecordPool, 1), kv \in {KvActual, KvCorrupt}}

\* The mem_end values callers pass: none, at or below mem_begin, inside
\* each record, at the end of the stream, at the end of the image.
SetupEnds(img) ==
    {NULL, Begin - FieldSize, Begin, StreamEnd(img), ImageEnd(img)}
      \cup {RecStart(img, i) + FieldSize : i \in 0..(Len(img.recs) - 1)}

\* The location arguments: every pool string and the empty string, each
\* followed by its terminating NUL.
LocationBuffers == {Append(l, 0) : l \in LocationPool} \cup {<<0>>}

\* The file offsets callers resolve.
OffsetInputs(img) ==
    {0, FieldSize, StreamEnd(img) - Begin, PastEndOffset(img), LargeUint32}

\* The dex-file indexes callers ask for.
IndexInputs == 0..(MaxDex + 1) \cup {LargeUint32}

\* The class-definition indexes callers ask for.
ClassIndexInputs == {0, 1, 2, TwoPow16, TwoPow16 + 1, TwoPow16 + 2}

Call(op, arg, ret, outcome, log, value, entry, pointer) ==
    [op |-> op, arg |-> arg, ret |-> ret, outcome |-> outcome, log |-> log,
     value |-> value, entry |-> entry, pointer |-> pointer]

\* Images for the class, method and code lookups: one record of each kind
\* (a small module, one with a table entry past the image, a wide module),
\* in every order, with a sound header.
ChainPool ==
    {RawRecord(loc) : loc \in {PrefixName, BaseName, SuffixName}}
ChainImages ==
    {[header |-> Header(OatSignature, Len(rs), KvActual), recs |-> rs] :
        rs \in SeqsUpTo(ChainPool, MaxDex)}

\* Nothing has been called yet: the caller's records are unwritten.
Blank ==
    /\ oat = NoContext
    /\ dexFile = NoDexFile
    /\ clazz = NoClass
    /\ method = NoMethod
    /\ call = Call("none", << >>, FALSE, "none", << >>, Indeterminate,
                   Indeterminate, Indeterminate)
    /\ crashed = FALSE

Init == image \in Images /\ Blank
InitChain == image \in ChainImages /\ Blank

\* The caller sets a context up before any lookup, and works down one
\* chain at a time: a dex-file lookup starts a new chain (the class and the
\* method of the previous one are dropped), a class lookup drops the method.
\* The records the caller passes on are ones a lookup filled in.
Fresh == ~crashed /\ oat = NoContext
Ready == ~crashed /\ oat.begin = Begin
DexLevel == Ready /\ clazz = NoClass /\ method = NoMethod
DexValid == Ready /\ dexFile.data.valid /\ dexFile.oat_file = OatFilePtr
ClassLevel == DexValid /\ method = NoMethod
ClassValid ==
    /\ DexValid
    /\ clazz.dex_class.valid /\ clazz.oat_class_data.valid
    /\ clazz.oat_dex_file = DexFilePtr
MethodValid == ClassValid /\ method.dex_method.valid /\ method.oat_class = ClassPtr

\* The caller looks at the header of the mapping before it sets a context up.
IsValidHeader ==
    /\ Fresh
    /\ call' = Call("oat_IsValidHeader", <<Begin>>, oat_IsValidHeader(image, Begin),
                    "ok", << >>, Indeterminate, Indeterminate, Indeterminate)
    /\ UNCHANGED <<image, oat, dexFile, clazz, method, crashed>>

Setup ==
    \E b \in {NULL, Begin}, e \in SetupEnds(image) :
        LET r == oat_Setup(image, oat, b, e)
        IN  /\ Fresh \/ (DexLevel /\ dexFile = NoDexFile)
            /\ oat' = r.ctx
            /\ dexFile' = IF r.ret THEN NoDexFile ELSE dexFile
            /\ clazz' = IF r.ret THEN NoClass ELSE clazz
            /\ method' = IF r.ret THEN NoMethod ELSE method
            /\ call' = Call("oat_Setup", <<b, e>>, r.ret,
                            IF r.ret THEN "ok" ELSE "failure", << >>,
                            Indeterminate, Indeterminate, Indeterminate)
            /\ UNCHANGED <<image, crashed>>

PointerFromFileOffset ==
    \E offset \in OffsetInputs(image) :
        LET p == oat_PointerFromFileOffset(oat, offset)
        IN  /\ DexLevel /\ dexFile = NoDexFile
            /\ call' = Call("oat_PointerFromFileOffset", <<offset>>, p # NULL,
                            IF p # NULL THEN "pointer" ELSE "none", << >>, p,
                            Indeterminate, Indeterminate)
            /\ UNCHANGED <<image, oat, dexFile, clazz, method, crashed>>

GetOatDexFile ==
    \E index \in IndexInputs :
        LET r == oat_GetOatDexFile(image, oat, dexFile, index)
        IN  /\ DexLevel
            /\ dexFile' = r.result
            /\ clazz' = NoClass
            /\ method' = NoMethod
            /\ oat' = r.oat_file
            /\ call' = Call("oat_GetOatDexFile", <<index>>, r.ret, r.outcome, r.log,
                            Indeterminate, Indeterminate, Indeterminate)
            /\ UNCHANGED <<image, crashed>>

FindDexFile ==
    \E location \in LocationBuffers :
        LET r == oat_FindDexFile(image, oat, dexFile, location)
        IN  /\ DexLevel
            /\ dexFile' = r.result
            /\ clazz' = NoClass
            /\ method' = NoMethod
            /\ oat' = r.oat_file
            /\ call' = Call("oat_FindDexFile", <<location>>, r.ret, r.outcome, r.log,
                            Indeterminate, Indeterminate, Indeterminate)
            /\ UNCHANGED <<image, crashed>>

FindClassInDex ==
    \E descriptor \in Descriptors :
        LET r == oat_FindClassInDex(image, oat, dexFile, clazz, descriptor)
        IN  /\ ClassLevel
            /\ clazz' = r.clazz
            /\ method' = NoMethod
            /\ call' = Call("oat_FindClassInDex", <<descriptor>>, r.ret, r.outcome,
                            << >>, Indeterminate, r.entry, r.pointer)
            /\ UNCHANGED <<image, oat, dexFile, crashed>>

GetClass ==
    \E index \in ClassIndexInputs :
        LET r == oat_GetClass(image, oat, dexFile, clazz, index)
        IN  /\ ClassLevel
            /\ clazz' = r.clazz
            /\ method' = NoMethod
            /\ call' = Call("oat_GetClass", <<index>>, r.ret, r.outcome, << >>,
                            Indeterminate, r.entry, r.pointer)
            /\ UNCHANGED <<image, oat, dexFile, crashed>>

FindClass ==
    \E descriptor \in Descriptors :
        LET r == oat_FindClass(image, oat, dexFile, clazz, descriptor)
        IN  /\ DexLevel
            /\ dexFile' = r.dexFile
            /\ clazz' = r.clazz
            /\ method' = NoMethod
            /\ oat' = r.oat_file
            /\ call' = Call("oat_FindClass", <<descriptor>>, r.ret, r.outcome, r.log,
                            Indeterminate, Indeterminate, Indeterminate)
            /\ UNCHANGED <<image, crashed>>

FindDirectMethod ==
    \E n \in MethodNames :
        LET r == oat_FindDirectMethod(clazz, method, n[1], n[2])
        IN  /\ ClassValid
            /\ method' = r.method
            /\ call' = Call("oat_FindDirectMethod", n, r.ret,
                            IF r.ret THEN "found" ELSE "not-found", r.log,
                            Indeterminate, Indeterminate, Indeterminate)
            /\ UNCHANGED <<image, oat, dexFile, clazz, crashed>>

FindVirtualMethod ==
    \E n \in MethodNames :
        LET r == oat_FindVirtualMethod(clazz, method, n[1], n[2])
        IN  /\ ClassValid
            /\ method' = r.method
            /\ call' = Call("oat_FindVirtualMethod", n, r.ret,
                            IF r.ret THEN "found" ELSE "not-found", r.log,
                            Indeterminate, Indeterminate, Indeterminate)
            /\ UNCHANGED <<image, oat, dexFile, clazz, crashed>>

FindMethod ==
    \E n \in MethodNames :
        LET r == oat_FindMethod(clazz, method, n[1], n[2])
        IN  /\ ClassValid
            /\ method' = r.method
            /\ call' = Call("oat_FindMethod", n, r.ret,
                            IF r.ret THEN "found" ELSE "not-found", r.log,
                            Indeterminate, Indeterminate, Indeterminate)
            /\ UNCHANGED <<image, oat, dexFile, clazz, crashed>>

HasQuickCompiledCode ==
    /\ MethodValid
    /\ call' = Call("oat_HasQuickCompiledCode", << >>, oat_HasQuickCompiledCode(method),
                    "ok", << >>, Indeterminate, Indeterminate, Indeterminate)
    /\ UNCHANGED <<image, oat, dexFile, clazz, method, crashed>>

GetQuickCompiledEntryPoint ==
    \E r \in oat_GetQuickCompiledEntryPoint(image, oat, method) :
        /\ MethodValid
        /\ crashed' = r.crash
        /\ call' = Call("oat_GetQuickCompiledEntryPoint", << >>, ~r.crash,
                        IF r.crash THEN "crash" ELSE "ok", << >>, r.value,
                        Indeterminate, Indeterminate)
        /\ UNCHANGED <<image, oat, dexFile, clazz, method>>

GetQuickCompiledMemoryPointer ==
    \E r \in oat_GetQuickCompiledMemoryPointer(image, oat, method) :
        /\ MethodValid
        /\ crashed' = r.crash
        /\ call' = Call("oat_GetQuickCompiledMemoryPointer", << >>, ~r.crash,
                        IF r.crash THEN "crash" ELSE "ok", << >>, r.value,
                        Indeterminate, Indeterminate)
        /\ UNCHANGED <<image, oat, dexFile, clazz, method>>

\* The directory walker: setup, the resolver and the walks over the stream.
Next ==
    \/ IsValidHeader
    \/ Setup
    \/ PointerFromFileOffset
    \/ GetOatDexFile
    \/ FindDexFile
    \/ FindClass

Spec == Init /\ [][Next]_vars

\* One chain: a dex file by index, a class in it, a method of it, its code.
NextChain ==
    \/ Setup
    \/ GetOatDexFile
    \/ FindClassInDex
    \/ GetClass
    \/ FindDirectMethod
    \/ FindVirtualMethod
    \/ FindMethod
    \/ HasQuickCompiledCode
    \/ GetQuickCompiledEntryPoint
    \/ GetQuickCompiledMemoryPointer

SpecChain == InitChain /\ [][NextChain]_vars

(***************************************************************************)
(* Properties.                                                             *)
(***************************************************************************)

\* C9: the resolver returns NULL for offset 0 and begin + offset for every
\* other offset, also when begin + offset lies beyond end.
C9_ResolveIsBeginPlusOffset ==
    call.op = "oat_PointerFromFileOffset" =>
        call.value = (IF call.arg[1] = 0 THEN NULL ELSE oat.begin + call.arg[1])

\* C9 witness: an offset beyond end was resolved to begin + offset.
C9_Witness ==
    /\ call.op = "oat_PointerFromFileOffset"
    /\ call.arg[1] # 0
    /\ oat.begin + call.arg[1] > oat.end
    /\ call.value = oat.begin + call.arg[1]

C10_SetupStep ==
    call'.op = "oat_Setup" =>
        LET b == call'.arg[1]
            e == call'.arg[2]
        IN  /\ call'.ret = ~(b = NULL \/ e = NULL \/ e <= b)
            /\ ~call'.ret => oat' = oat

\* C10: setup fails exactly when begin is null, end is null or end <= begin,
\* and a failing setup leaves every field of the context as it was.
C10_SetupContract == [][C10_SetupStep]_vars

\* C10 witness: setup failed on a non-null range with end <= begin, on a
\* context an earlier setup had filled in.
C10_Witness ==
    /\ call.op = "oat_Setup"
    /\ ~call.ret
    /\ call.arg[1] # NULL /\ call.arg[2] # NULL
    /\ oat.begin = Begin

\* The image is well formed for the walker: the header's size field is the
\* real size of the key-value store and every record lies before end.
WellFormed ==
    /\ oat.begin = Begin
    /\ image.header.key_value_store_size = KvActual
    /\ oat.end >= StreamEnd(image)

RECURSIVE ForwardWalk(_, _, _, _)
\* The records a forward walk of n decode steps from the cursor yields.
ForwardWalk(img, cursor, end, n) ==
    IF n = 0 THEN << >>
    ELSE LET rd == ReadOatDexFileData(img, cursor, end)
         IN  IF ~rd.ok THEN << >>
             ELSE <<rd.data>> \o ForwardWalk(img, rd.cursor, end, n - 1)

\* C7: on a well-formed image with N records, get_by_index(i) with i < N
\* returns the i-th record of a full forward walk from
\* dex_file_storage_start, with sequence index i; with i >= N it fails
\* without decoding any record.
C7_GetByIndexIsForwardWalk ==
    (call.op = "oat_GetOatDexFile" /\ WellFormed) =>
        LET i    == call.arg[1]
            N    == image.header.dex_file_count
            walk == ForwardWalk(image, oat.dex_file_storage_start, oat.end, N)
        IN  /\ Len(walk) = N
            /\ IF i < N
               THEN /\ call.ret
                    /\ dexFile.index = i
                    /\ dexFile.data = walk[i + 1]
                    /\ dexFile.data.location_string = walk[i + 1].location_string
               ELSE ~call.ret /\ call.log = << >>

\* C7 witness: the last of at least two records was asked for and returned,
\* and its location string differs from the first record's.
C7_Witness ==
    /\ call.op = "oat_GetOatDexFile" /\ WellFormed
    /\ call.ret
    /\ call.arg[1] >= 1
    /\ call.arg[1] = image.header.dex_file_count - 1
    /\ image.recs[1].location # image.recs[call.arg[1] + 1].location

\* The string a NUL-terminated buffer holds: the bytes before its first NUL.
CString(buf) ==
    LET nuls  == {k \in 1..Len(buf) : buf[k] = 0}
        first == CHOOSE k \in nuls : \A m \in nuls : k <= m
    IN  SubSeq(buf, 1, first - 1)

\* s is a proper prefix or a proper suffix of t.
ProperAffix(s, t) ==
    /\ Len(s) >= 1 /\ Len(s) < Len(t)
    /\ \/ s = SubSeq(t, 1, Len(s))
       \/ s = SubSeq(t, Len(t) - Len(s) + 1, Len(t))

\* C8: on a well-formed image, find_by_location(s) returns found with the
\* record of the smallest index whose location string equals s in length
\* and content, and not-found when no record's location string equals s.
C8_FindByLocationExact ==
    (call.op = "oat_FindDexFile" /\ WellFormed) =>
        LET s       == CString(call.arg[1])
            N       == image.header.dex_file_count
            matches == {i \in 0..(N - 1) : image.recs[i + 1].location = s}
        IN  IF matches = {}
            THEN ~call.ret /\ call.outcome = "not-found"
            ELSE /\ call.ret
                 /\ \A m \in matches : dexFile.index <= m
                 /\ dexFile.index \in matches
                 /\ dexFile.data.location_string.length = Len(s)
                 /\ dexFile.data.location_string.content = s

\* C8 witness: a proper prefix or suffix of a record's location string was
\* looked up and not found.
C8_Witness ==
    /\ call.op = "oat_FindDexFile" /\ WellFormed
    /\ ~call.ret
    /\ \E i \in 1..Len(image.recs) :
           ProperAffix(CString(call.arg[1]), image.recs[i].location)

\* C5: in find_class_across_file, a failing get_by_index(i) is the last
\* thing the operation does: find_class is not called on record i, no
\* record beyond i is decoded, and the operation returns failure.
C5_GetFailureEndsFindClass ==
    call.op = "oat_FindClass" =>
        \A k \in 1..Len(call.log) :
            (call.log[k][1] = "GetOatDexFile" /\ ~call.log[k][3]) =>
                /\ k = Len(call.log)
                /\ ~call.ret
                /\ call.outcome = "failure"
                /\ \A d \in 1..Len(call.log[k][4]) :
                       call.log[k][4][d][2] <= call.log[k][2]

\* C5 witness: get_by_index failed on the second record, after the first
\* was decoded and searched.
C5_Witness ==
    /\ call.op = "oat_FindClass"
    /\ Len(call.log) = 3
    /\ call.log[3][1] = "GetOatDexFile" /\ call.log[3][2] = 1 /\ ~call.log[3][3]
    /\ call.log[2][1] = "FindClassInDex"

\* The values a search returns for a match and for no match.
FoundReturn == TRUE
NotFoundReturn == FALSE

\* C2: find_by_location returns not-found when every record decodes and
\* none matches, and returns a decode failure, which is neither its
\* not-found result nor its found result, when a record is malformed.
C2_FailureIsNotNotFound ==
    call.op = "oat_FindDexFile" =>
        /\ call.outcome = "not-found" => call.ret = NotFoundReturn
        /\ call.outcome = "failure" =>
               call.ret # NotFoundReturn /\ call.ret # FoundReturn

\* C3: when the table entry selected for a class points past the end of
\* the image, find_class and get_class_by_def_index report failure, a
\* result that differs from the not-found result.
C3_PastEndIsFailure ==
    (/\ call.op \in {"oat_FindClassInDex", "oat_GetClass"}
     /\ call.entry # Indeterminate
     /\ call.pointer >= oat.end) =>
        /\ call.outcome = "failure"
        /\ ~call.ret
        /\ call.ret # NotFoundReturn

\* C4: in find_class_across_file, a class-metadata decode failure in
\* find_class on record i is the last thing the operation does: no later
\* record is searched and the operation does not return found.
C4_ClassFailureEndsFindClass ==
    call.op = "oat_FindClass" =>
        \A k \in 1..Len(call.log) :
            (call.log[k][1] = "FindClassInDex" /\ call.log[k][3] = "failure") =>
                /\ k = Len(call.log)
                /\ ~call.ret

\* C1: a method that was found and has no compiled code is a normal
\* outcome: has_compiled_code returns false, get_entry_point returns none,
\* and nothing traps.
C1_NoCompiledCodeIsNormal ==
    (method.dex_method.valid /\ method.oat_method_offsets = NULL) =>
        /\ ~crashed
        /\ call.op = "oat_HasQuickCompiledCode" => ~call.ret
        /\ call.op = "oat_GetQuickCompiledEntryPoint" => call.value = NULL

\* C6: get_class_by_def_index, called with the class-definition index the
\* DEX parser reports for a class of the record, reads the table entry and
\* decodes from the address that find_class reads and decodes from for
\* that class.
C6_SameEntryAsFindClass ==
    call.op = "oat_GetClass" =>
        LET m == ModuleAt(image, dexFile.data.dex_file_pointer)
        IN  \A d \in DOMAIN m.defs :
                m.defs[d] = call.arg[1] =>
                    LET f == oat_FindClassInDex(image, oat, dexFile, NoClass, d)
                    IN  /\ call.entry = f.entry
                        /\ call.pointer = f.pointer
                        /\ call.ret = f.ret

RECURSIVE DefsBefore(_, _)
\* Class definitions of the records before record i (from 0): the place of
\* record i's class definition 0 in the class metadata area.
DefsBefore(img, i) ==
    IF i = 0 THEN 0 ELSE DefsBefore(img, i - 1) + NumDefs(img.recs[i].dex)

\* The code_offset_ the image stores for in-class method j of class
\* definition c of record i.
StoredCodeOffset(img, i, c, j) ==
    (CodeStart(img) - Begin)
      + CodeSize * (MethodsPerClass * ((DefsBefore(img, i) + c) % 2) + j)

\* The method record names a method whose compiled-code-offset record is
\* present in the image.
HasOffsetsRecord ==
    method.dex_method.class_method_idx \in image.recs[dexFile.index + 1].compiled

\* C11: for a method record whose compiled-code-offset record is present
\* with code offset k, get_entry_point returns exactly begin + k, begin
\* being that of the context behind the method's class and dex file, and
\* has_compiled_code returns true exactly for such records.
C11_EntryPointIsBeginPlusOffset ==
    /\ (call.op = "oat_GetQuickCompiledEntryPoint" /\ HasOffsetsRecord) =>
           /\ ~crashed
           /\ call.value =
                  oat.begin + StoredCodeOffset(image, dexFile.index,
                                               clazz.dex_class.class_def,
                                               method.dex_method.class_method_idx)
    /\ call.op = "oat_HasQuickCompiledCode" => call.ret = HasOffsetsRecord

\* C11 witness: the entry point of a compiled method of the second record
\* was returned, at an odd address inside the image's code.
C11_Witness ==
    /\ call.op = "oat_GetQuickCompiledEntryPoint" /\ HasOffsetsRecord
    /\ dexFile.index = 1
    /\ call.value % 2 = 1
    /\ call.value >= CodeStart(image) /\ call.value < ImageEnd(image)

\* C12: find_method consults the direct-method table first and the
\* virtual-method table only when the direct lookup found nothing; it returns
\* the direct match when there is one, otherwise the virtual match when
\* there is one, otherwise not-found; the compiled-code-offset accessor is
\* consulted only for the method that matched, with that method's in-class
\* index, and an absent offset leaves the result found.
C12_DirectBeforeVirtual ==
    call.op = "oat_FindMethod" =>
        LET n      == call.arg
            direct == <<"dex_FindDirectMethod", n \in DOMAIN DirectMethods>>
            virt   == <<"dex_FindVirtualMethod", n \in DOMAIN VirtualMethods>>
            idx    == method.dex_method.class_method_idx
            get    == <<"GetOatMethodOffsets", idx, method.oat_method_offsets>>
        IN  IF n \in DOMAIN DirectMethods
            THEN /\ call.ret
                 /\ method.dex_method.kind = "direct"
                 /\ idx = DirectMethods[n]
                 /\ call.log = <<direct, get>>
                 /\ (method.oat_method_offsets = NULL) = ~HasOffsetsRecord
            ELSE IF n \in DOMAIN VirtualMethods
            THEN /\ call.ret
                 /\ method.dex_method.kind = "virtual"
                 /\ idx = VirtualMethods[n]
                 /\ call.log = <<direct, virt, get>>
                 /\ (method.oat_method_offsets = NULL) = ~HasOffsetsRecord
            ELSE /\ ~call.ret
                 /\ call.log = <<direct, virt>>

\* C12 witness: a method both tables list was looked up; the direct match
\* was returned as found although it has no compiled code and the virtual
\* one has.
C12_Witness ==
    /\ call.op = "oat_FindMethod" /\ call.ret
    /\ call.arg \in DOMAIN DirectMethods /\ call.arg \in DOMAIN VirtualMethods
    /\ method.dex_method.kind = "direct"
    /\ method.oat_method_offsets = NULL
    /\ VirtualMethods[call.arg] \in image.recs[dexFile.index + 1].compiled

\* Every operation of the navigator, on the images of the lookup chain.
NextAll ==
    \/ IsValidHeader
    \/ Setup
    \/ PointerFromFileOffset
    \/ GetOatDexFile
    \/ FindDexFile
    \/ FindClass
    \/ FindClassInDex
    \/ GetClass
    \/ FindDirectMethod
    \/ FindVirtualMethod
    \/ FindMethod
    \/ HasQuickCompiledCode
    \/ GetQuickCompiledEntryPoint
    \/ GetQuickCompiledMemoryPointer

SpecAll == InitChain /\ [][NextAll]_vars

C13_LookupStep ==
    (oat.begin = Begin /\ call'.op # "oat_Setup") =>
        /\ oat' = oat
        /\ image' = image

\* C13: after a successful setup no lookup changes a field of the context
\* (begin, end, header, key_value_storage_start, dex_file_storage_start) or
\* a byte of the mapped image.
C13_LookupsLeaveContext == [][C13_LookupStep]_vars

\* C13 witness: at the end of a chain of lookups down to a code pointer in
\* the second record, the context holds what setup stored in it.
C13_Witness ==
    /\ call.op = "oat_GetQuickCompiledMemoryPointer" /\ ~crashed
    /\ dexFile.index = 1
    /\ oat = oat_Setup(image, NoContext, Begin, oat.end).ctx

\* The decode steps of a logged walk, in the order they were made.
DecodeSteps(log) == SelectSeq(log, LAMBDA e : e[1] = "decode")

\* C14: in get_by_index and find_by_location a decode failure at position i
\* ends the walk: the operation returns failure at once, no record is
\* decoded after it, and no record at a position beyond i is compared or
\* returned.
C14_DecodeFailureEndsWalk ==
    call.op \in {"oat_GetOatDexFile", "oat_FindDexFile"} =>
        /\ \A k \in 1..Len(DecodeSteps(call.log)) :
               DecodeSteps(call.log)[k][2] = k - 1
        /\ \A k \in 1..Len(call.log) :
               (call.log[k][1] = "decode" /\ ~call.log[k][3]) =>
                   /\ k = Len(call.log)
                   /\ ~call.ret
                   /\ call.outcome = "failure"
                   /\ ~dexFile.data.valid
                   /\ \A j \in 1..(k - 1) : call.log[j][2] < call.log[k][2]

\* C14 witness: find_by_location on an image with two records failed to
\* decode the first, and that decode is all the walk did.
C14_Witness ==
    /\ call.op = "oat_FindDexFile"
    /\ image.header.dex_file_count = 2
    /\ call.log = <<<<"decode", 0, FALSE>>>>
    /\ ~call.ret

\* The walks of the directory walker.
WalkOps == {"oat_GetOatDexFile", "oat_FindDexFile", "oat_FindClass"}

\* The first decode of a walk, as logged by the walk or by the get_by_index
\* of find_class_across_file.
FirstDecodeFailed(log) ==
    \/ log = <<<<"decode", 0, FALSE>>>>
    \/ log = <<<<"GetOatDexFile", 0, FALSE, <<<<"decode", 0, FALSE>>>>>>>>

\* C15: setup succeeds for every non-null begin < end whatever the header's
\* signature and key_value_store_size are, with dex_file_storage_start =
\* key_value_storage_start + key_value_store_size even beyond end; when the
\* stream start lies beyond end the first decode of a walk fails, and no
\* walk returns a record that lies beyond end.
C15_SetupIsLazy ==
    /\ (call.op = "oat_Setup" /\ call.arg[1] # NULL /\ call.arg[2] > call.arg[1]) =>
           /\ call.ret
           /\ oat.begin = call.arg[1] /\ oat.end = call.arg[2]
           /\ oat.key_value_storage_start = oat.begin + HeaderSize
           /\ oat.dex_file_storage_start =
                  oat.key_value_storage_start + image.header.key_value_store_size
    /\ (call.op \in WalkOps /\ oat.dex_file_storage_start > oat.end) =>
           /\ ~call.ret
           /\ call.log # << >> => FirstDecodeFailed(call.log) /\ ~dexFile.data.valid
    /\ (call.op \in WalkOps /\ call.ret) =>
           /\ dexFile.data.valid
           /\ RecStart(image, dexFile.index + 1) <= oat.end

\* C15 witness: setup succeeded on an image with a foreign signature and a
\* size field that puts the record stream beyond end, and find_by_location
\* then failed on its first decode.
C15_Witness ==
    /\ call.op = "oat_FindDexFile"
    /\ ~oat_IsValidHeader(image, oat.header)
    /\ oat.dex_file_storage_start > oat.end
    /\ call.log = <<<<"decode", 0, FALSE>>>>

\* The records a logged walk decoded successfully.
DecodedCount(log) ==
    Len(SelectSeq(log, LAMBDA e : e[1] = "decode" /\ e[3]))

C16_FindStep ==
    (call'.op = "oat_FindDexFile" /\ ~call'.ret) =>
        LET N       == image.header.dex_file_count
            decoded == DecodedCount(call'.log)
        IN  IF decoded > 0
            THEN /\ dexFile'.oat_file = OatFilePtr
                 /\ dexFile'.index = decoded - 1
                 /\ dexFile = NoDexFile => dexFile' # dexFile
                 /\ call'.outcome = "not-found" =>
                        /\ decoded = N
                        /\ dexFile' =
                               oat_GetOatDexFile(image, oat, NoDexFile, N - 1).result
            ELSE /\ dexFile'.oat_file = dexFile.oat_file
                 /\ dexFile'.index = dexFile.index

\* C16: a find_by_location that finds no match still writes the caller's
\* output record: on not-found with dex_file_count > 0 the record holds the
\* data, owner and index dex_file_count - 1 of the last record decoded (what
\* get_by_index returns for it), and on a decode failure at position i > 0
\* it holds the owner and index of record i - 1; the return value alone says
\* it is not a match.
C16_OutputWrittenWithoutMatch == [][C16_FindStep]_vars

\* C16 witness: find_by_location failed to decode the second record and
\* left the owner and index of the first in the output record.
C16_Witness ==
    /\ call.op = "oat_FindDexFile" /\ ~call.ret
    /\ call.outcome = "failure"
    /\ DecodedCount(call.log) = 1
    /\ dexFile.oat_file = OatFilePtr /\ dexFile.index = 0

====
